---- MODULE Spec2Model ----
(***************************************************************************)
(* Model of the deno rolldown plugin's Rust core (src/rs_lib):             *)
(*   - http_client.rs     : classification of the host fetch result        *)
(*   - module_analyzer.rs : dependency extraction and position arithmetic  *)
(*   - lib.rs             : the DenoPlugin facade (create / resolve / load)*)
(* Text is modelled as a sequence of one-character strings (bytes).        *)
(***************************************************************************)
EXTENDS Integers, Sequences, FiniteSets, TLC

VARIABLES
  httpPc,      \* WasmHttpClient: "idle", "awaiting" (suspended in fetch_specifier) or "done"
  httpClient,  \* which trait method is running: "generic" (send_no_follow) or "package"
  httpRequest, \* the header list handed to fetch_specifier_typed
  httpResult,  \* what the host fetch capability answered
  httpOut,     \* the typed outcome returned to the caller
  plugin,      \* the DenoPlugin instance: NoneOpt, or Some of its four fields
  cr,          \* create_inner in progress: its position and locals
  created,     \* the arguments and the result of the last call of create
  call,        \* the resolve or load call in progress or just finished
  anaStmts,    \* analyze: the document, as its statements
  anaMedia,    \* analyze: the media type
  anaOut,      \* analyze: the result, NoneOpt before the call
  posDoc,      \* byte_index_to_position: the source text of the last call
  posIndex,    \* byte_index_to_position: the index of the last call
  posResult    \* byte_index_to_position: the Position returned, NoneOpt before the call

httpVars == <<httpPc, httpClient, httpRequest, httpResult, httpOut>>
posVars == <<posDoc, posIndex, posResult>>
anaVars == <<anaStmts, anaMedia, anaOut>>
pluginVars == <<plugin, cr, created, call>>
vars == <<httpVars, pluginVars, anaVars, posVars>>

None == "none"

\* Rust's Option.
NoneOpt == [some |-> FALSE]
Some(v) == [some |-> TRUE, value |-> v]
\* ------------------------------------------------------------------------
\* Bounds
\* ------------------------------------------------------------------------
MaxLen == 4          \* longest text handed to byte_index_to_position
MaxStmts == 2        \* most top-level statements of an analyzed document
MaxEntrypoints == 2  \* most entrypoints handed to create
\* ------------------------------------------------------------------------
\* Text helpers
\* ------------------------------------------------------------------------
NL == "\n"

\* The bytes a text is made of: a plain byte, a newline, and the two bytes
\* of a two-byte UTF-8 character.
PosBytes == {"a", NL, "c3", "a9"}

SeqsUpTo(S, n) == UNION {[1..k -> S] : k \in 0..n}
\* ------------------------------------------------------------------------
\* module_analyzer.rs: byte_index_to_position
\* ------------------------------------------------------------------------
\* The loop with the line start left on the newline itself.
RECURSIVE ScanBytesOnNewline(_, _, _, _)
ScanBytesOnNewline(source, index, i, st) ==
  IF i >= Len(source) THEN st
  ELSE IF i = index THEN st
  ELSE IF source[i + 1] = NL
       THEN ScanBytesOnNewline(source, index, i + 1,
                               [line |-> st.line + 1, last_line_start |-> i])
       ELSE ScanBytesOnNewline(source, index, i + 1, st)

\* The for loop over source.bytes().enumerate(): i is the zero-based index of
\* the next byte, st the loop state (line, last_line_start).
RECURSIVE ScanBytes(_, _, _, _)
ScanBytes(source, index, i, st) ==
  IF i >= Len(source) THEN st
  ELSE IF i = index THEN st
  ELSE IF source[i + 1] = NL
       THEN ScanBytes(source, index, i + 1,
                      [line |-> st.line + 1, last_line_start |-> i + 1])
       ELSE ScanBytes(source, index, i + 1, st)

byte_index_to_position(source, index) ==
  LET st == ScanBytes(source, index, 0, [line |-> 0, last_line_start |-> 0])
  IN [line |-> st.line, character |-> index - st.last_line_start]
\* ------------------------------------------------------------------------
\* http_client.rs: the host fetch result and its marshalling
\* ------------------------------------------------------------------------
U16Max == 65535

Str_etag == <<"e", "t", "a", "g">>

\* u8::to_ascii_lowercase over the characters header names are drawn from.
AsciiLower(c) ==
  CASE c = "E" -> "e"
    [] c = "T" -> "t"
    [] c = "X" -> "x"
    [] OTHER -> c

LowerStr(s) == [i \in 1..Len(s) |-> AsciiLower(s[i])]

\* str::eq_ignore_ascii_case
eq_ignore_ascii_case(a, b) == LowerStr(a) = LowerStr(b)

\* Character classes of header text: token characters may appear in a header
\* name; a value may hold any byte >= 32 except DEL, or a tab; only visible
\* ASCII (and tab) survives HeaderValue::to_str.
TokenChars == {"e", "t", "a", "g", "E", "T", "x", "X", "-", "1"}
VisibleChars == TokenChars \cup {" ", "/", "\""}
OpaqueChars == {"c3", "a9"}

HeaderName_from_bytes(k) ==
  IF Len(k) > 0 /\ \A i \in 1..Len(k) : k[i] \in TokenChars
  THEN [ok |-> TRUE, name |-> LowerStr(k)]
  ELSE [ok |-> FALSE]

HeaderValue_from_str(v) ==
  IF \A i \in 1..Len(v) : v[i] \in VisibleChars \cup OpaqueChars
  THEN [ok |-> TRUE, value |-> v]
  ELSE [ok |-> FALSE]

HeaderValue_to_str(v) ==
  IF \A i \in 1..Len(v) : v[i] \in VisibleChars
  THEN [ok |-> TRUE, str |-> v]
  ELSE [ok |-> FALSE]

\* HeaderMap::append: the map iterates its names in first-insertion order,
\* every value of a name right after that name's earlier values.
RECURSIVE LastIndexOfName(_, _, _)
LastIndexOfName(map, name, i) ==
  IF i = 0 THEN 0
  ELSE IF map[i].name = name THEN i
  ELSE LastIndexOfName(map, name, i - 1)

HeaderMap_append(map, name, value) ==
  LET at == LastIndexOfName(map, name, Len(map))
      e == [name |-> name, value |-> value]
  IN IF at = 0 THEN Append(map, e)
     ELSE SubSeq(map, 1, at) \o <<e>> \o SubSeq(map, at + 1, Len(map))

\* A value of the host's header object that is not a string (an array).
NotAString == <<"[array]">>

\* response_headers_to_headermap: entries whose key or value is not a
\* string, or whose name or value does not validate, are skipped.
RECURSIVE HeadersFrom(_, _, _)
HeadersFrom(entries, i, map) ==
  IF i > Len(entries) THEN map
  ELSE LET k == entries[i][1]
           v == entries[i][2]
       IN IF v = NotAString
          THEN HeadersFrom(entries, i + 1, map)
          ELSE LET name == HeaderName_from_bytes(k)
                   val == HeaderValue_from_str(v)
               IN IF name.ok /\ val.ok
                  THEN HeadersFrom(entries, i + 1,
                                   HeaderMap_append(map, name.name, val.value))
                  ELSE HeadersFrom(entries, i + 1, map)

response_headers_to_headermap(headers) ==
  IF ~headers.is_object THEN <<>> ELSE HeadersFrom(headers.entries, 1, <<>>)

\* `as u16` on the f64 status: a saturating cast.
AsU16(x) == IF x < 0 THEN 0 ELSE IF x > U16Max THEN U16Max ELSE x

\* parse_response: the Response struct read out of the host's object.
parse_response(js) ==
  [status |-> AsU16(js.status),
   body |-> js.body,
   headers |-> response_headers_to_headermap(js.headers)]

\* parse_fetch_result: an object with an "error" property is a FetchError,
\* anything else must decode as a Response.
parse_fetch_result(js) ==
  CASE js.shape = "error" -> [ok |-> TRUE, kind |-> "Error", error |-> js.error]
    [] js.shape = "response" ->
         [ok |-> TRUE, kind |-> "Response", response |-> parse_response(js)]
    [] OTHER -> [ok |-> FALSE, error |-> js.error]

\* fetch_specifier_typed, after the await: a JsValue error becomes an anyhow
\* error carrying its text.
fetch_specifier_typed(js) == parse_fetch_result(js)

\* StatusCode::from_u16: only 100..=999 is a status code.
StatusCode_from_u16(c) ==
  IF c >= 100 /\ c < 1000 THEN [ok |-> TRUE, code |-> c] ELSE [ok |-> FALSE]

Panic == [ok |-> FALSE, tag |-> "Panic"]

\* send_no_follow, lines 82-93: the match on response.status.
ClassifyGeneric(response) ==
  LET c == response.status
  IN CASE c = 304 -> [ok |-> TRUE, tag |-> "NotModified"]
       [] c # 304 /\ c >= 300 /\ c <= 399 ->
            [ok |-> TRUE, tag |-> "Redirect", headers |-> response.headers]
       [] c = 404 -> [ok |-> FALSE, tag |-> "NotFound"]
       [] c >= 200 /\ c <= 299 ->
            [ok |-> TRUE, tag |-> "Success", headers |-> response.headers,
             body |-> response.body]
       [] OTHER ->
            IF StatusCode_from_u16(c).ok
            THEN [ok |-> FALSE, tag |-> "StatusCode",
                  code |-> StatusCode_from_u16(c).code]
            ELSE Panic

\* send_no_follow, lines 68-93: from the fetch result to the outcome.
SendNoFollowOutcome(js) ==
  LET result == fetch_specifier_typed(js)
  IN IF ~result.ok THEN [ok |-> FALSE, tag |-> "Failed", error |-> result.error]
     ELSE IF result.kind = "Error"
     THEN [ok |-> FALSE, tag |-> "Failed", error |-> result.error]
     ELSE ClassifyGeneric(result.response)

\* The find_map of lines 133-141: the first header named etag whose value
\* converts to a string.
RECURSIVE FindEtag(_, _)
FindEtag(headers, i) ==
  IF i > Len(headers) THEN NoneOpt
  ELSE IF eq_ignore_ascii_case(headers[i].name, Str_etag)
          /\ HeaderValue_to_str(headers[i].value).ok
       THEN Some(HeaderValue_to_str(headers[i].value).str)
       ELSE FindEtag(headers, i + 1)

\* ClassifyPackage with the 404 arm missing: not-found falls into the error arm.
ClassifyPackageNo404(response) ==
  LET c == response.status
  IN CASE c >= 200 /\ c <= 299 ->
            [ok |-> TRUE, tag |-> "Bytes", etag |-> FindEtag(response.headers, 1),
             bytes |-> response.body]
       [] c = 304 -> [ok |-> TRUE, tag |-> "NotModified"]
       [] OTHER -> [ok |-> FALSE, tag |-> "DownloadError", status_code |-> Some(c)]

\* download_with_retries_on_any_tokio_runtime, lines 131-156.
ClassifyPackage(response) ==
  LET c == response.status
  IN CASE c >= 200 /\ c <= 299 ->
            [ok |-> TRUE, tag |-> "Bytes", etag |-> FindEtag(response.headers, 1),
             bytes |-> response.body]
       [] c = 304 -> [ok |-> TRUE, tag |-> "NotModified"]
       [] c = 404 -> [ok |-> TRUE, tag |-> "NotFound"]
       [] OTHER -> [ok |-> FALSE, tag |-> "DownloadError", status_code |-> Some(c)]

\* download_with_retries_on_any_tokio_runtime, lines 114-156.
DownloadOutcome(js) ==
  LET result == fetch_specifier_typed(js)
  IN IF ~result.ok
     THEN [ok |-> FALSE, tag |-> "DownloadError", status_code |-> NoneOpt,
           error |-> result.error]
     ELSE IF result.kind = "Error"
     THEN [ok |-> FALSE, tag |-> "DownloadError", status_code |-> NoneOpt,
           error |-> result.error]
     ELSE ClassifyPackage(result.response)

\* The request headers of the package download, lines 106-112.
DownloadRequestHeaders(maybe_auth, maybe_etag) ==
  (IF maybe_auth # None THEN <<<<"authorization", maybe_auth>>>> ELSE <<>>)
  \o (IF maybe_etag # None THEN <<<<"if-none-match", maybe_etag>>>> ELSE <<>>)

\* What the host can answer.  The keys of one header object are distinct.
HostStatuses == (0 - 1)..(U16Max + 1)
HostBodies == {"body"}
Key_ETag == <<"E", "T", "a", "g">>
Key_x_a == <<"X", "-", "a">>
Key_bad == <<"e", " ", "t">>
Val_quoted == <<"\"", "1", "\"">>
Val_weak == <<"x", "/", "\"", "1", "\"">>
Val_opaque == <<"c3", "a9">>
HostHeaderObjects ==
  { <<>>,
    << <<Key_ETag, Val_quoted>> >>,
    << <<Key_x_a, Val_weak>> >>,
    << <<Str_etag, Val_opaque>> >>,
    << <<Key_ETag, Val_opaque>>, <<Str_etag, Val_weak>> >>,
    << <<Key_x_a, Val_quoted>>, <<Str_etag, Val_quoted>> >>,
    << <<Key_ETag, NotAString>>, <<Key_bad, Val_quoted>> >> }
HostErrors == {"network down"}

HostResponses ==
  [shape : {"response"}, status : HostStatuses, body : HostBodies,
   headers : [is_object : {TRUE}, entries : HostHeaderObjects]
             \cup {[is_object |-> FALSE]}]
HostFailures ==
  [shape : {"error", "malformed"}, error : HostErrors]
\* ------------------------------------------------------------------------
\* WasmHttpClient as a state machine: a call suspends in the host fetch and
\* resumes with its answer.
\* ------------------------------------------------------------------------
\* send_no_follow up to the await of line 69.
SendNoFollowCall ==
  /\ httpPc = "idle"
  /\ \E headers \in {<<>>, <<<<"accept", "*/*">>>>} :
       httpRequest' = headers
  /\ httpPc' = "awaiting"
  /\ httpClient' = "generic"
  /\ httpResult' = None
  /\ httpOut' = None
  /\ UNCHANGED <<pluginVars, anaVars, posVars>>

\* download_with_retries_on_any_tokio_runtime up to the await of line 115.
DownloadCall ==
  /\ httpPc = "idle"
  /\ \E maybe_auth \in {None, "Bearer t"}, maybe_etag \in {None, "\"1\""} :
       httpRequest' = DownloadRequestHeaders(maybe_auth, maybe_etag)
  /\ httpPc' = "awaiting"
  /\ httpClient' = "package"
  /\ httpResult' = None
  /\ httpOut' = None
  /\ UNCHANGED <<pluginVars, anaVars, posVars>>

\* send_no_follow from the host's answer to its return.
SendNoFollowReturn ==
  /\ httpPc = "awaiting"
  /\ httpClient = "generic"
  /\ \E js \in HostResponses \cup HostFailures :
       /\ httpResult' = js
       /\ httpOut' = SendNoFollowOutcome(js)
  /\ httpPc' = "done"
  /\ httpRequest' = None
  /\ UNCHANGED httpClient
  /\ UNCHANGED <<pluginVars, anaVars, posVars>>

\* download_with_retries_on_any_tokio_runtime from the host's answer to its
\* return.
DownloadReturn ==
  /\ httpPc = "awaiting"
  /\ httpClient = "package"
  /\ \E js \in HostResponses \cup HostFailures :
       /\ httpResult' = js
       /\ httpOut' = DownloadOutcome(js)
  /\ httpPc' = "done"
  /\ httpRequest' = None
  /\ UNCHANGED httpClient
  /\ UNCHANGED <<pluginVars, anaVars, posVars>>

\* The caller consumes the outcome; the client is stateless.
HttpConsume ==
  /\ httpPc = "done"
  /\ httpPc' = "idle"
  /\ httpClient' = None
  /\ httpRequest' = None
  /\ httpResult' = None
  /\ httpOut' = None
  /\ UNCHANGED <<pluginVars, anaVars, posVars>>

NextHttp ==
  \/ SendNoFollowCall
  \/ DownloadCall
  \/ SendNoFollowReturn
  \/ DownloadReturn
  \/ HttpConsume
\* ------------------------------------------------------------------------
\* Properties of the fetch classification
\* ------------------------------------------------------------------------
GenericDone ==
  httpPc = "done" /\ httpClient = "generic" /\ httpResult.shape = "response"
PackageDone ==
  httpPc = "done" /\ httpClient = "package" /\ httpResult.shape = "response"

\* The 16-bit status and the typed header map of the answered response.
DoneStatus == AsU16(httpResult.status)
DoneHeaders == response_headers_to_headermap(httpResult.headers)

\* C1: send_no_follow returns, for every 16-bit status c, NotModified when
\* c = 304, Redirect(headers) when 300 <= c < 400 and c # 304, NotFound when
\* c = 404, Success(headers, body) when 200 <= c < 300, and StatusError(c)
\* for every other c.
C1_GenericClassification ==
  GenericDone =>
    LET c == DoneStatus
    IN /\ (c = 304) => httpOut = [ok |-> TRUE, tag |-> "NotModified"]
       /\ (c >= 300 /\ c < 400 /\ c # 304) =>
            httpOut = [ok |-> TRUE, tag |-> "Redirect", headers |-> DoneHeaders]
       /\ (c = 404) => httpOut = [ok |-> FALSE, tag |-> "NotFound"]
       /\ (c >= 200 /\ c < 300) =>
            httpOut = [ok |-> TRUE, tag |-> "Success", headers |-> DoneHeaders,
                       body |-> httpResult.body]
       /\ (c < 200 \/ (c >= 400 /\ c # 404)) =>
            httpOut = [ok |-> FALSE, tag |-> "StatusCode", code |-> c]

\* The positions of the typed header map that hold an etag header, and those
\* whose value is also visible ASCII text.
EtagPositions ==
  {i \in 1..Len(DoneHeaders) : LowerStr(DoneHeaders[i].name) = Str_etag}
TextEtagPositions ==
  {i \in EtagPositions :
     \A j \in 1..Len(DoneHeaders[i].value) : DoneHeaders[i].value[j] \in VisibleChars}
FirstOf(S) == CHOOSE i \in S : \A j \in S : i <= j

\* The status bands of the package-cache download, etag left aside.
PackageBands ==
  LET c == DoneStatus
  IN /\ (c >= 200 /\ c < 300) =>
          /\ httpOut.ok /\ httpOut.tag = "Bytes"
          /\ httpOut.bytes = httpResult.body
     /\ (c = 304) => httpOut = [ok |-> TRUE, tag |-> "NotModified"]
     /\ (c = 404) => httpOut = [ok |-> TRUE, tag |-> "NotFound"]
     /\ (c < 200 \/ (c >= 300 /\ c # 304 /\ c # 404)) =>
          httpOut = [ok |-> FALSE, tag |-> "DownloadError", status_code |-> Some(c)]
     /\ httpOut.tag # "Redirect"
     /\ (c = 304 \/ c = 404 \/ (c >= 200 /\ c < 300)) =>
          httpOut.tag = (IF c = 404 THEN "NotFound"
                         ELSE IF c = 304 THEN "NotModified" ELSE "Bytes")

\* C2 as stated: the package download classifies by the same bands without a
\* redirect, and a 2xx success carries as etag the value of the response
\* header named etag, no etag exactly when there is no such header.
C2_PackageClassification ==
  PackageDone =>
    /\ PackageBands
    /\ (DoneStatus >= 200 /\ DoneStatus < 300) =>
         IF EtagPositions = {} THEN httpOut.etag = NoneOpt
         ELSE \E i \in EtagPositions : httpOut.etag = Some(DoneHeaders[i].value)

\* C2 amended: the etag of a 2xx success is the value of the first etag
\* header whose value is visible ASCII text, and there is no etag when no
\* etag header holds such a value.
C2_PackageClassificationAmended ==
  PackageDone =>
    /\ PackageBands
    /\ (DoneStatus >= 200 /\ DoneStatus < 300) =>
         IF TextEtagPositions = {} THEN httpOut.etag = NoneOpt
         ELSE httpOut.etag = Some(DoneHeaders[FirstOf(TextEtagPositions)].value)

\* A 2xx package download whose first etag header is not text and whose
\* second one is, and a 404 and a 3xx download.
C2_Witness ==
  /\ PackageDone
  /\ DoneStatus = 200
  /\ Cardinality(EtagPositions) = 2
  /\ FirstOf(EtagPositions) \notin TextEtagPositions
  /\ httpOut.etag = Some(Val_weak)
\* ------------------------------------------------------------------------
\* module_analyzer.rs: source text and syntax tree
\* ------------------------------------------------------------------------
\* The parser is an external collaborator.  A document is given by its
\* statements; its text is their rendering and every node's span is the
\* place of its rendering in the text, which is what the parser reports.
Quote == "\""
\* The byte 0x60 that delimits a template literal.
Backtick == "0x60"

Kw_import == <<"i", "m", "p", "o", "r", "t", " ">>
Kw_export == <<"e", "x", "p", "o", "r", "t", " ">>
Kw_export_from == <<"e", "x", "p", "o", "r", "t", "{", "}", "f", "r", "o", "m", " ">>
Kw_export_all == <<"e", "x", "p", "o", "r", "t", "*", "f", "r", "o", "m", " ">>
Kw_export_default == <<"e", "x", "p", "o", "r", "t", " ", "d", "e", "f", "a", "u", "l", "t", " ">>
Kw_const == <<"c", "o", "n", "s", "t", " ", "x", "=">>
Kw_function == <<"f", "u", "n", "c", "t", "i", "o", "n", " ", "f", "(", ")", "{">>
Kw_import_call == <<"i", "m", "p", "o", "r", "t", "(">>
Kw_garbage == <<")">>

StringLiteral(raw, value) == [type |-> "StringLiteral", raw |-> raw, value |-> value]
TemplateElement(raw, cooked) == [raw |-> raw, cooked |-> cooked]
TemplateLiteral(quasis, expressions) ==
  [type |-> "TemplateLiteral", quasis |-> quasis, expressions |-> expressions]
Identifier(name) == [type |-> "Identifier", name |-> name]
ImportExpression(source) == [type |-> "ImportExpression", source |-> source]

ImportDeclaration(source) == [type |-> "ImportDeclaration", source |-> source]
ExportNamedFrom(source) ==
  [type |-> "ExportNamedDeclaration", source |-> Some(source), declaration |-> NoneOpt]
ExportNamedDecl(declaration) ==
  [type |-> "ExportNamedDeclaration", source |-> NoneOpt,
   declaration |-> Some(declaration)]
ExportAllDeclaration(source) == [type |-> "ExportAllDeclaration", source |-> source]
ExportDefaultDeclaration(expr) == [type |-> "ExportDefaultDeclaration", expr |-> expr]
VariableDeclaration(init) == [type |-> "VariableDeclaration", init |-> init]
ExpressionStatement(expr) == [type |-> "ExpressionStatement", expr |-> expr]
FunctionDeclaration(body) == [type |-> "FunctionDeclaration", body |-> body]
Malformed == [type |-> "Malformed"]

RECURSIVE ExprText(_), TemplateText(_, _), StmtText(_), StmtsText(_, _, _)
TemplateText(e, i) ==
  e.quasis[i].raw \o
    (IF i > Len(e.expressions) THEN <<>>
     ELSE <<"$", "{">> \o ExprText(e.expressions[i]) \o <<"}">>
          \o TemplateText(e, i + 1))

ExprText(e) ==
  CASE e.type = "StringLiteral" -> <<Quote>> \o e.raw \o <<Quote>>
    [] e.type = "TemplateLiteral" -> <<Backtick>> \o TemplateText(e, 1) \o <<Backtick>>
    [] e.type = "Identifier" -> e.name
    [] e.type = "ImportExpression" ->
         Kw_import_call \o ExprText(e.source) \o <<")">>

\* Statements i.. of a list, sep between them.
StmtsText(stmts, i, sep) ==
  IF i > Len(stmts) THEN <<>>
  ELSE StmtText(stmts[i])
       \o (IF i < Len(stmts) THEN sep ELSE <<>>)
       \o StmtsText(stmts, i + 1, sep)

StmtText(s) ==
  CASE s.type = "ImportDeclaration" -> Kw_import \o ExprText(s.source)
    [] s.type = "ExportNamedDeclaration" ->
         IF s.source.some THEN Kw_export_from \o ExprText(s.source.value)
         ELSE Kw_export \o StmtText(s.declaration.value)
    [] s.type = "ExportAllDeclaration" -> Kw_export_all \o ExprText(s.source)
    [] s.type = "ExportDefaultDeclaration" -> Kw_export_default \o ExprText(s.expr)
    [] s.type = "VariableDeclaration" -> Kw_const \o ExprText(s.init)
    [] s.type = "ExpressionStatement" -> ExprText(s.expr)
    [] s.type = "FunctionDeclaration" ->
         Kw_function \o StmtsText(s.body, 1, <<";">>) \o <<"}">>
    [] s.type = "Malformed" -> Kw_garbage

SourceText(stmts) == StmtsText(stmts, 1, <<NL>>)

Span(start, end) == [start |-> start, end |-> end]

\* The tree as the parser hands it over: every node with its span, byte
\* offsets counted from at, the offset of the first byte of the node.
RECURSIVE SpannedExpr(_, _), SpannedTemplateExprs(_, _, _), SpannedStmt(_, _)
RECURSIVE SpannedStmts(_, _, _, _)
SpannedTemplateExprs(e, i, at) ==
  IF i > Len(e.expressions) THEN <<>>
  ELSE LET exprAt == at + Len(e.quasis[i].raw) + 2
       IN <<SpannedExpr(e.expressions[i], exprAt)>>
          \o SpannedTemplateExprs(e, i + 1,
                                  exprAt + Len(ExprText(e.expressions[i])) + 1)

SpannedExpr(e, at) ==
  LET span == Span(at, at + Len(ExprText(e)))
  IN CASE e.type = "StringLiteral" ->
            [type |-> e.type, value |-> e.value, span |-> span]
       [] e.type = "TemplateLiteral" ->
            [type |-> e.type, quasis |-> e.quasis,
             expressions |-> SpannedTemplateExprs(e, 1, at + 1), span |-> span]
       [] e.type = "Identifier" -> [type |-> e.type, name |-> e.name, span |-> span]
       [] e.type = "ImportExpression" ->
            [type |-> e.type,
             source |-> SpannedExpr(e.source, at + Len(Kw_import_call)),
             span |-> span]

SpannedStmts(stmts, i, at, sepLen) ==
  IF i > Len(stmts) THEN <<>>
  ELSE <<SpannedStmt(stmts[i], at)>>
       \o SpannedStmts(stmts, i + 1, at + Len(StmtText(stmts[i])) + sepLen, sepLen)

SpannedStmt(s, at) ==
  LET span == Span(at, at + Len(StmtText(s)))
  IN CASE s.type = "ImportDeclaration" ->
            [type |-> s.type, source |-> SpannedExpr(s.source, at + Len(Kw_import)),
             span |-> span]
       [] s.type = "ExportNamedDeclaration" ->
            IF s.source.some
            THEN [type |-> s.type,
                  source |-> Some(SpannedExpr(s.source.value,
                                              at + Len(Kw_export_from))),
                  declaration |-> NoneOpt, span |-> span]
            ELSE [type |-> s.type, source |-> NoneOpt,
                  declaration |-> Some(SpannedStmt(s.declaration.value,
                                                   at + Len(Kw_export))),
                  span |-> span]
       [] s.type = "ExportAllDeclaration" ->
            [type |-> s.type,
             source |-> SpannedExpr(s.source, at + Len(Kw_export_all)),
             span |-> span]
       [] s.type = "ExportDefaultDeclaration" ->
            [type |-> s.type,
             expr |-> SpannedExpr(s.expr, at + Len(Kw_export_default)),
             span |-> span]
       [] s.type = "VariableDeclaration" ->
            [type |-> s.type, init |-> SpannedExpr(s.init, at + Len(Kw_const)),
             span |-> span]
       [] s.type = "ExpressionStatement" ->
            [type |-> s.type, expr |-> SpannedExpr(s.expr, at), span |-> span]
       [] s.type = "FunctionDeclaration" ->
            [type |-> s.type,
             body |-> SpannedStmts(s.body, 1, at + Len(Kw_function), 1),
             span |-> span]
       [] s.type = "Malformed" -> [type |-> s.type, span |-> span]

HasSyntaxError(stmts) == \E i \in 1..Len(stmts) : stmts[i].type = "Malformed"

\* Whether the text uses module syntax, which decides an unambiguous parse.
HasModuleSyntax(stmts) ==
  \E i \in 1..Len(stmts) :
    stmts[i].type \in {"ImportDeclaration", "ExportNamedDeclaration",
                       "ExportAllDeclaration", "ExportDefaultDeclaration"}

\* Parser::parse: on a syntax error the parser gives up and returns an empty
\* program together with its errors.
Parse(stmts, source_type) ==
  LET bad == HasSyntaxError(stmts)
      kind == IF source_type.module_kind = "unambiguous"
              THEN (IF ~bad /\ HasModuleSyntax(stmts) THEN "module" ELSE "script")
              ELSE source_type.module_kind
  IN [program |-> [body |-> IF bad THEN <<>> ELSE SpannedStmts(stmts, 1, 0, 1),
                   source_type |-> [source_type EXCEPT !.module_kind = kind]],
      errors |-> IF bad THEN <<"Unexpected token">> ELSE <<>>,
      panicked |-> bad]

\* ------------------------------------------------------------------------
\* module_analyzer.rs: DependencyCollector
\* ------------------------------------------------------------------------
span_to_position_range(source, span) ==
  [start |-> byte_index_to_position(source, span.start),
   end |-> byte_index_to_position(source, span.end)]

StaticDependency(kind, specifier, range) ==
  [type |-> "Static", kind |-> kind, specifier |-> specifier,
   specifier_range |-> range]

DynamicDependency(argument, range) ==
  [type |-> "Dynamic", kind |-> "Import", argument |-> argument,
   argument_range |-> range]

\* visit_import_declaration taking the span of the whole declaration.
visit_import_declaration_node_span(deps, source_text, node) ==
  Append(deps, StaticDependency("Import", node.source.value,
                                span_to_position_range(source_text, node.span)))

visit_import_declaration(deps, source_text, node) ==
  Append(deps, StaticDependency("Import", node.source.value,
                                span_to_position_range(source_text, node.source.span)))

visit_export_named_declaration(deps, source_text, node) ==
  IF node.source.some
  THEN Append(deps, StaticDependency("Export", node.source.value.value,
                      span_to_position_range(source_text, node.source.value.span)))
  ELSE deps

visit_export_all_declaration(deps, source_text, node) ==
  Append(deps, StaticDependency("Export", node.source.value,
                                span_to_position_range(source_text, node.source.span)))

\* Lines 163-176: one String part per quasi, then one Expr part per
\* interpolation.
QuasiParts(quasis) ==
  [i \in 1..Len(quasis) |->
     [tag |-> "String",
      value |-> IF quasis[i].cooked.some THEN quasis[i].cooked.value ELSE <<>>]]
ExprParts(expressions) == [i \in 1..Len(expressions) |-> [tag |-> "Expr"]]

visit_import_expression(deps, source_text, node) ==
  LET src == node.source
      arg == CASE src.type = "StringLiteral" ->
                    <<[tag |-> "String", value |-> src.value],
                      span_to_position_range(source_text, src.span)>>
               [] src.type = "TemplateLiteral" ->
                    <<[tag |-> "Template",
                       parts |-> QuasiParts(src.quasis) \o ExprParts(src.expressions)],
                      span_to_position_range(source_text, src.span)>>
               [] OTHER ->
                    <<[tag |-> "Expr"],
                      span_to_position_range(source_text, node.span)>>
  IN Append(deps, DynamicDependency(arg[1], arg[2]))

\* The Visit trait: a node kind with an overridden visit method is handed to
\* that method, which does not walk the node's children; every other node
\* kind is walked child by child in source order.
RECURSIVE visit_statement(_, _, _), visit_expression(_, _, _)
RECURSIVE walk_statements(_, _, _, _), walk_expressions(_, _, _, _)
walk_statements(deps, source_text, stmts, i) ==
  IF i > Len(stmts) THEN deps
  ELSE walk_statements(visit_statement(deps, source_text, stmts[i]),
                       source_text, stmts, i + 1)

walk_expressions(deps, source_text, exprs, i) ==
  IF i > Len(exprs) THEN deps
  ELSE walk_expressions(visit_expression(deps, source_text, exprs[i]),
                        source_text, exprs, i + 1)

visit_statement(deps, source_text, s) ==
  CASE s.type = "ImportDeclaration" -> visit_import_declaration(deps, source_text, s)
    [] s.type = "ExportNamedDeclaration" ->
         visit_export_named_declaration(deps, source_text, s)
    [] s.type = "ExportAllDeclaration" ->
         visit_export_all_declaration(deps, source_text, s)
    [] s.type = "ExportDefaultDeclaration" ->
         visit_expression(deps, source_text, s.expr)
    [] s.type = "VariableDeclaration" -> visit_expression(deps, source_text, s.init)
    [] s.type = "ExpressionStatement" -> visit_expression(deps, source_text, s.expr)
    [] s.type = "FunctionDeclaration" ->
         walk_statements(deps, source_text, s.body, 1)
    [] OTHER -> deps

visit_expression(deps, source_text, e) ==
  CASE e.type = "ImportExpression" -> visit_import_expression(deps, source_text, e)
    [] e.type = "TemplateLiteral" ->
         walk_expressions(deps, source_text, e.expressions, 1)
    [] OTHER -> deps

walk_program(deps, source_text, program) ==
  walk_statements(deps, source_text, program.body, 1)

\* ------------------------------------------------------------------------
\* module_analyzer.rs: OxcModuleAnalyzer::analyze
\* ------------------------------------------------------------------------
MediaTypes ==
  {"JavaScript", "Jsx", "Mjs", "Cjs", "TypeScript", "Mts", "Cts", "Dts", "Dmts",
   "Dcts", "Tsx", "Css", "Json", "Html", "Sql", "Wasm", "SourceMap", "Unknown"}

SourceType(module_kind, typescript, jsx) ==
  [module_kind |-> module_kind, typescript |-> typescript, jsx |-> jsx]

\* Lines 42-80: the match on media_type.
SourceTypeOf(media_type) ==
  CASE media_type = "JavaScript" -> Some(SourceType("unambiguous", FALSE, FALSE))
    [] media_type = "Mjs" -> Some(SourceType("module", FALSE, FALSE))
    [] media_type = "Cjs" -> Some(SourceType("script", FALSE, FALSE))
    [] media_type = "Jsx" -> Some(SourceType("module", FALSE, TRUE))
    [] media_type = "TypeScript" -> Some(SourceType("unambiguous", TRUE, FALSE))
    [] media_type = "Mts" -> Some(SourceType("module", TRUE, FALSE))
    [] media_type = "Cts" -> Some(SourceType("script", TRUE, FALSE))
    [] media_type = "Tsx" -> Some(SourceType("unambiguous", TRUE, TRUE))
    [] media_type = "Dts" -> Some(SourceType("unambiguous", TRUE, FALSE))
    [] media_type \in {"Dmts", "Dcts"} -> Some(SourceType("module", TRUE, FALSE))
    [] OTHER -> NoneOpt

analyze(stmts, media_type) ==
  LET source_type == SourceTypeOf(media_type)
      source_text == SourceText(stmts)
  IN IF ~source_type.some
     THEN [ok |-> FALSE, error |-> "Unsupported media type for analysis"]
     ELSE LET parser_return == Parse(stmts, source_type.value)
          IN [ok |-> TRUE,
              is_script |-> parser_return.program.source_type.module_kind = "script",
              dependencies |-> walk_program(<<>>, source_text, parser_return.program)]

\* ------------------------------------------------------------------------
\* The documents the analyzer is run on
\* ------------------------------------------------------------------------
Lit_a == StringLiteral(<<".", "/", "a">>, <<".", "/", "a">>)
Lit_b == StringLiteral(<<".", "\\", "x", "2", "f", "b">>, <<".", "/", "b">>)
Id == Identifier(<<"i", "d">>)
Cooked(text) == TemplateElement(text, Some(text))
Tpl_c == TemplateLiteral(<<Cooked(<<".", "/", "c", "-">>), Cooked(<<".", "j", "s">>)>>, <<Id>>)
Tpl_d == TemplateLiteral(<<Cooked(<<".", "/", "d">>)>>, <<>>)
Tpl_e == TemplateLiteral(<<Cooked(<<>>), Cooked(<<"/">>), Cooked(<<>>)>>, <<Id, Id>>)
Tpl_u == TemplateLiteral(<<TemplateElement(<<"\\", "u">>, NoneOpt), Cooked(<<>>)>>, <<Id>>)

Statements ==
  { ImportDeclaration(Lit_a),
    ExportNamedFrom(Lit_b),
    ExportAllDeclaration(Lit_b),
    ExportNamedDecl(VariableDeclaration(ImportExpression(Lit_a))),
    ExportNamedDecl(VariableDeclaration(Id)),
    ExportDefaultDeclaration(ImportExpression(Lit_b)),
    VariableDeclaration(ImportExpression(Tpl_c)),
    ExpressionStatement(ImportExpression(Tpl_d)),
    ExpressionStatement(ImportExpression(Tpl_e)),
    ExpressionStatement(ImportExpression(Tpl_u)),
    ExpressionStatement(ImportExpression(Id)),
    ExpressionStatement(ImportExpression(ImportExpression(Lit_a))),
    FunctionDeclaration(<<ExpressionStatement(ImportExpression(Lit_a))>>),
    Malformed }

Documents == SeqsUpTo(Statements, MaxStmts)

\* ------------------------------------------------------------------------
\* The analyzer run on every document under every media type
\* ------------------------------------------------------------------------
Analyze ==
  /\ ~anaOut.some
  /\ anaOut' = Some(analyze(anaStmts, anaMedia))
  /\ UNCHANGED <<anaStmts, anaMedia>>
  /\ UNCHANGED <<httpVars, pluginVars, posVars>>

NextAna == Analyze

\* ------------------------------------------------------------------------
\* lib.rs: specifiers, paths and parse_entrypoint
\* ------------------------------------------------------------------------
Ok(v) == [ok |-> TRUE, value |-> v]
Err(msg) == [ok |-> FALSE, error |-> msg]

\* str::starts_with
StartsWith(s, prefix) ==
  Len(s) >= Len(prefix) /\ SubSeq(s, 1, Len(prefix)) = prefix
EndsWith(s, suffix) ==
  Len(s) >= Len(suffix) /\ SubSeq(s, Len(s) - Len(suffix) + 1, Len(s)) = suffix

Str_jsr == <<"j", "s", "r", ":">>
Str_http == <<"h", "t", "t", "p", ":">>
Str_https == <<"h", "t", "t", "p", "s", ":">>
Str_file == <<"f", "i", "l", "e", ":">>
Str_file_root == <<"f", "i", "l", "e", ":", "/", "/", "/">>

\* The place of the first c in s at or after i, 0 when there is none.
RECURSIVE IndexOf(_, _, _)
IndexOf(s, c, i) ==
  IF i > Len(s) THEN 0
  ELSE IF s[i] = c THEN i
  ELSE IndexOf(s, c, i + 1)

RECURSIVE StripSlashes(_)
StripSlashes(s) ==
  IF Len(s) > 0 /\ s[1] = "/" THEN StripSlashes(Tail(s)) ELSE s

\* Url::parse followed by Url::to_string: a text without a scheme is a
\* relative URL and has no base; http(s) needs a host and gets the path "/"
\* when it has none; a file URL has an empty host; any other scheme keeps the
\* text after the colon as it is.
UrlParse(text) ==
  LET colon == IndexOf(text, ":", 1)
      scheme == SubSeq(text, 1, colon)
      rest == SubSeq(text, colon + 1, Len(text))
  IN IF colon <= 1 \/ IndexOf(scheme, "/", 1) # 0 \/ IndexOf(scheme, ".", 1) # 0
     THEN Err("relative URL without a base")
     ELSE IF scheme \in {Str_http, Str_https}
     THEN LET hostpath == StripSlashes(rest)
          IN IF hostpath = <<>> THEN Err("empty host")
             ELSE Ok(scheme \o <<"/", "/">> \o hostpath
                     \o (IF IndexOf(hostpath, "/", 1) = 0 THEN <<"/">> ELSE <<>>))
     ELSE IF scheme = Str_file
     THEN Ok(Str_file_root \o StripSlashes(rest))
     ELSE Ok(text)

\* Path::join: an absolute path replaces the base.
PathJoin(base, path) ==
  IF StartsWith(path, <<"/">>) THEN path
  ELSE IF EndsWith(base, <<"/">>) THEN base \o path
  ELSE base \o <<"/">> \o path

\* Path::components of an absolute path: the names between the separators,
\* empty names and "." left out.
RECURSIVE PathComponents(_)
PathComponents(path) ==
  IF path = <<>> THEN <<>>
  ELSE LET slash == IndexOf(path, "/", 1)
           name == IF slash = 0 THEN path ELSE SubSeq(path, 1, slash - 1)
           rest == IF slash = 0 THEN <<>> ELSE SubSeq(path, slash + 1, Len(path))
       IN (IF name = <<>> \/ name = <<".">> THEN <<>> ELSE <<name>>)
          \o PathComponents(rest)

RECURSIVE JoinComponents(_, _)
JoinComponents(names, i) ==
  IF i > Len(names) THEN <<>>
  ELSE names[i] \o (IF i < Len(names) THEN <<"/">> ELSE <<>>)
       \o JoinComponents(names, i + 1)

\* deno_path_util::url_from_file_path: only an absolute path has a file URL.
url_from_file_path(path) ==
  IF ~StartsWith(path, <<"/">>) THEN Err("invalid path")
  ELSE Ok(Str_file_root \o JoinComponents(PathComponents(path), 1))

\* parse_entrypoint with http: taken verbatim as well.
parse_entrypoint_with_http(entrypoint, cwd) ==
  IF \/ StartsWith(entrypoint, Str_jsr)
     \/ StartsWith(entrypoint, Str_http)
     \/ StartsWith(entrypoint, Str_https)
     \/ StartsWith(entrypoint, Str_file)
  THEN UrlParse(entrypoint)
  ELSE url_from_file_path(PathJoin(cwd, entrypoint))

parse_entrypoint(entrypoint, cwd) ==
  IF \/ StartsWith(entrypoint, Str_jsr)
     \/ StartsWith(entrypoint, Str_https)
     \/ StartsWith(entrypoint, Str_file)
  THEN UrlParse(entrypoint)
  ELSE url_from_file_path(PathJoin(cwd, entrypoint))

\* Line 63: every entrypoint parsed, the first failure returned.
RECURSIVE ParseRoots(_, _, _, _)
ParseRoots(entrypoints, cwd, i, roots) ==
  IF i > Len(entrypoints) THEN Ok(roots)
  ELSE LET r == parse_entrypoint(entrypoints[i], cwd)
       IN IF r.ok THEN ParseRoots(entrypoints, cwd, i + 1, Append(roots, r.value))
          ELSE Err(r.error)

media_type_to_u8(media_type) ==
  CASE media_type = "JavaScript" -> 0
    [] media_type = "Jsx" -> 1
    [] media_type = "Mjs" -> 2
    [] media_type = "Cjs" -> 3
    [] media_type = "TypeScript" -> 4
    [] media_type = "Mts" -> 5
    [] media_type = "Cts" -> 6
    [] media_type = "Dts" -> 7
    [] media_type = "Dmts" -> 8
    [] media_type = "Dcts" -> 9
    [] media_type = "Tsx" -> 10
    [] media_type = "Css" -> 11
    [] media_type = "Json" -> 12
    [] media_type = "Html" -> 13
    [] media_type = "Sql" -> 14
    [] media_type = "Wasm" -> 15
    [] media_type = "SourceMap" -> 16
    [] media_type = "Unknown" -> 17

\* MediaType::from_specifier_and_headers: a content type decides, else the
\* extension of the URL.
from_specifier_and_headers(url, maybe_headers) ==
  IF maybe_headers.some
  THEN (CASE maybe_headers.value = "application/typescript" -> "TypeScript"
          [] maybe_headers.value = "application/json" -> "Json"
          [] OTHER -> "Unknown")
  ELSE (CASE EndsWith(url, <<".", "t", "s">>) -> "TypeScript"
          [] EndsWith(url, <<".", "j", "s">>) -> "JavaScript"
          [] EndsWith(url, <<".", "j", "s", "o", "n">>) -> "Json"
          [] EndsWith(url, <<".", "w", "a", "s", "m">>) -> "Wasm"
          [] OTHER -> "Unknown")

\* String::from_utf8_lossy: a byte that is not UTF-8 becomes U+FFFD.
from_utf8_lossy(bytes) ==
  [i \in 1..Len(bytes) |-> IF bytes[i] = "0xff" THEN "U+FFFD" ELSE bytes[i]]

\* ------------------------------------------------------------------------
\* lib.rs: what the collaborators of the plugin can hand it
\* ------------------------------------------------------------------------
Cwd_proj == <<"/", "p", "r", "o", "j">>
Cwds == {Cwd_proj, <<"/", "w", "/">>}

Text_rel == <<".", "/", "a", ".", "t", "s">>
Text_https == <<"h", "t", "t", "p", "s", ":", "/", "/", "e", "x", "a", "m", "p", "l", "e", ".", "c", "o", "m", "/", "a", ".", "t", "s">>
Text_jsr == <<"j", "s", "r", ":", "@", "s", "t", "d", "/", "f", "m", "t">>
Text_http == <<"h", "t", "t", "p", ":", "/", "/", "e", ".", "c", "o", "m", "/", "a", ".", "t", "s">>
Text_file == <<"f", "i", "l", "e", ":", "/", "/", "/", "p", "r", "o", "j", "/", "a", ".", "t", "s">>
Text_abs == <<"/", "a", "b", "s", "/", "b", ".", "t", "s">>
Text_bare == <<"m", "a", "i", "n", ".", "t", "s">>
Text_nohost == <<"h", "t", "t", "p", "s", ":">>
EntrypointTexts ==
  {Text_rel, Text_https, Text_jsr, Text_http, Text_file, Text_abs, Text_bare,
   Text_nohost}

Url_js == <<"f", "i", "l", "e", ":", "/", "/", "/", "p", "r", "o", "j", "/", "a", ".", "t", "s">>
Url_json == <<"f", "i", "l", "e", ":", "/", "/", "/", "p", "r", "o", "j", "/", "d", ".", "j", "s", "o", "n">>
Url_wasm == <<"h", "t", "t", "p", "s", ":", "/", "/", "e", ".", "c", "o", "m", "/", "m", ".", "w", "a", "s", "m">>
Url_npm == <<"n", "p", "m", ":", "x">>
Url_node == <<"n", "o", "d", "e", ":", "f", "s">>
Url_ext == <<"h", "t", "t", "p", "s", ":", "/", "/", "e", ".", "c", "o", "m", "/", "x", ".", "j", "s">>
Url_absent == <<"h", "t", "t", "p", "s", ":", "/", "/", "e", ".", "c", "o", "m", "/", "n", ".", "t", "s">>

Src_ts == <<"a", "(", ")">>
Src_json == <<"{", "}">>

\* Module tables a graph build can end with.
ModulesFull ==
  (Url_js :> [kind |-> "Js", specifier |-> Url_js, source |-> Src_ts,
              media_type |-> "TypeScript"])
  @@ (Url_json :> [kind |-> "Json", specifier |-> Url_json, source |-> Src_json])
  @@ (Url_wasm :> [kind |-> "Wasm", specifier |-> Url_wasm])
  @@ (Url_npm :> [kind |-> "Npm", specifier |-> Url_npm])
  @@ (Url_node :> [kind |-> "Node", specifier |-> Url_node])
  @@ (Url_ext :> [kind |-> "External", specifier |-> Url_ext])
ModulesSmall ==
  (Url_js :> [kind |-> "Js", specifier |-> Url_js, source |-> Src_json,
              media_type |-> "JavaScript"])
ModuleTables == {ModulesFull, ModulesSmall}

\* What the build can leave in the graph besides modules: nothing, or the
\* error of a module that could not be fetched or resolved. The module was
\* asked for by a static import (or is a root), or by a dynamic import only.
BuildErrors ==
  {NoneOpt,
   Some([message |-> "Module not found", dynamic |-> FALSE]),
   Some([message |-> "Import failed", dynamic |-> FALSE]),
   Some([message |-> "Module not found", dynamic |-> TRUE])}

\* ModuleGraph::get
graph_get(graph, url) ==
  IF url \in DOMAIN graph.modules THEN Some(graph.modules[url]) ELSE NoneOpt

\* ModuleGraph::valid with every error accepted.
graph_valid_always(graph) == Ok("valid")

\* ModuleGraph::valid: deno_graph walks the graph from the roots without
\* following dynamic imports and returns the first error it meets.
graph_valid(graph) ==
  IF graph.error.some /\ ~graph.error.value.dynamic
  THEN Err(graph.error.value.message)
  ELSE Ok("valid")

Resolver ==
  [is_cjs_resolution_mode |-> "ImplicitTypeCommonJs", unstable_sloppy_imports |-> TRUE]
FileFetcher == [allow_remote |-> TRUE, cache_setting |-> "Use"]

\* The fallible steps of create_inner between the parsing of the entrypoints
\* and the graph build, in order.
SetupSteps ==
  <<"workspace_directory", "initialize_npm_resolution_if_managed",
    "lockfile_npm_package_info_provider", "maybe_lockfile", "deno_resolver",
    "cjs_tracker", "workspace_directory (jsx)", "jsx_config", "http_cache",
    "global_http_cache", "in_npm_package_checker", "npm_deno_graph_resolver">>

\* ------------------------------------------------------------------------
\* lib.rs: DenoPlugin::resolve and DenoPlugin::load
\* ------------------------------------------------------------------------
\* Lines 174-177: the resolution mode of the wire.
ResolutionMode(resolution_mode) ==
  IF resolution_mode = 0 THEN "Require" ELSE "Import"

\* resolve_inner; answer is what resolver.resolve_with_graph returns when it
\* is called.
resolve_inner(self, specifier, importer, resolution_mode, answer) ==
  IF ~importer.some
  THEN [result |-> parse_entrypoint(specifier, self.cwd), resolver_calls |-> <<>>]
  ELSE LET referrer ==
             IF \/ StartsWith(importer.value, Str_http)
                \/ StartsWith(importer.value, Str_https)
                \/ StartsWith(importer.value, Str_file)
             THEN UrlParse(importer.value)
             ELSE url_from_file_path(importer.value)
       IN IF ~referrer.ok
          THEN [result |-> Err(referrer.error), resolver_calls |-> <<>>]
          ELSE [result |-> answer,
                resolver_calls |->
                  <<[graph |-> self.graph, specifier |-> specifier,
                     referrer |-> referrer.value,
                     resolution_mode |-> resolution_mode,
                     resolution_kind |-> "Execution"]>>]

LoadResponse(specifier, media_type, code) ==
  [specifier |-> specifier, media_type |-> media_type, code |-> code]

\* The match of load_inner with a WebAssembly module fetched like an
\* external one.
LoadDispatchWasmFetched(module) ==
  IF ~module.some THEN [do |-> "fetch"]
  ELSE CASE module.value.kind = "Js" ->
              [do |-> "return",
               result |-> Ok(LoadResponse(module.value.specifier,
                                          media_type_to_u8(module.value.media_type),
                                          module.value.source))]
         [] module.value.kind = "Json" ->
              [do |-> "return",
               result |-> Ok(LoadResponse(module.value.specifier,
                                          media_type_to_u8("Json"),
                                          module.value.source))]
         [] OTHER -> [do |-> "fetch"]

\* load_inner, lines 220-234: what the module found in the graph leads to.
LoadDispatch(module) ==
  IF ~module.some THEN [do |-> "fetch"]
  ELSE CASE module.value.kind = "Js" ->
              [do |-> "return",
               result |-> Ok(LoadResponse(module.value.specifier,
                                          media_type_to_u8(module.value.media_type),
                                          module.value.source))]
         [] module.value.kind = "Json" ->
              [do |-> "return",
               result |-> Ok(LoadResponse(module.value.specifier,
                                          media_type_to_u8("Json"),
                                          module.value.source))]
         [] module.value.kind = "Wasm" ->
              [do |-> "return", result |-> Err("Wasm is not supported.")]
         [] OTHER -> [do |-> "fetch"]

\* load_inner, lines 235-243: the response built from a fetched file.
LoadFetched(url, fetched) ==
  IF ~fetched.ok THEN Err(fetched.error)
  ELSE Ok(LoadResponse(fetched.value.url,
                       media_type_to_u8(from_specifier_and_headers(
                                          url, fetched.value.maybe_headers)),
                       from_utf8_lossy(fetched.value.source)))

Importers ==
  {NoneOpt, Some(Url_js), Some(<<"h", "t", "t", "p", ":", "/", "/", "e", ".", "c", "o", "m", "/", "m", ".", "j", "s">>), Some(<<"/", "p", "r", "o", "j", "/", "m", ".", "t", "s">>),
   Some(<<"m", ".", "t", "s">>)}
ResolverAnswers == {Ok(Url_json), Err("Unable to resolve")}
LoadTexts ==
  {Url_js, Url_json, Url_wasm, Url_npm, Url_node, Url_ext, Url_absent,
   <<"f", "i", "l", "e", ":", "/", "/", "/", "p", "r", "o", "j", "/", "n", ".", "j", "s", "o", "n">>, Text_rel}
FetchedFiles(url) ==
  [url : {url}, maybe_headers : {NoneOpt, Some("application/typescript")},
   source : {Src_ts, <<"a">> \o <<"0xff">>}]
FetchAnswers(url) ==
  {Ok(f) : f \in FetchedFiles(url)} \cup {Err("Import not found")}

\* ------------------------------------------------------------------------
\* The plugin as a state machine
\* ------------------------------------------------------------------------
CreateIdle ==
  [pc |-> "idle", entrypoints |-> <<>>, cwd |-> <<>>, roots |-> <<>>, step |-> 0,
   graph |-> NoneOpt]
CallIdle == [pc |-> "idle"]
NotCreated == [entrypoints |-> <<>>, cwd |-> <<>>, result |-> NoneOpt]

\* create_inner returns an error: its locals are dropped.
CreateFails(msg) ==
  /\ cr' = CreateIdle
  /\ created' = [entrypoints |-> cr.entrypoints, cwd |-> cr.cwd,
                 result |-> Some(Err(msg))]
  /\ UNCHANGED plugin

\* create, lines 53-62: the call and env_current_dir.
Create ==
  /\ ~plugin.some
  /\ cr.pc = "idle"
  /\ created = NotCreated
  /\ \E entrypoints \in SeqsUpTo(EntrypointTexts, MaxEntrypoints) :
       \E env \in {Ok(c) : c \in Cwds} \cup {Err("no current directory")} :
         IF env.ok
         THEN /\ cr' = [CreateIdle EXCEPT !.pc = "roots",
                                          !.entrypoints = entrypoints,
                                          !.cwd = env.value]
              /\ created' = [entrypoints |-> entrypoints, cwd |-> env.value,
                             result |-> NoneOpt]
         ELSE /\ cr' = CreateIdle
              /\ created' = [entrypoints |-> entrypoints, cwd |-> <<>>,
                             result |-> Some(Err(env.error))]
  /\ UNCHANGED <<plugin, call>>
  /\ UNCHANGED <<httpVars, anaVars, posVars>>

\* create_inner, line 63.
CreateParseRoots ==
  /\ cr.pc = "roots"
  /\ LET roots == ParseRoots(cr.entrypoints, cr.cwd, 1, <<>>)
     IN IF roots.ok
        THEN /\ cr' = [cr EXCEPT !.pc = "setup", !.roots = roots.value, !.step = 1]
             /\ UNCHANGED <<plugin, created>>
        ELSE CreateFails(roots.error)
  /\ UNCHANGED call
  /\ UNCHANGED <<httpVars, anaVars, posVars>>

\* create_inner, lines 64-136: one fallible step of the setup.
CreateSetup ==
  /\ cr.pc = "setup"
  /\ \E ok \in BOOLEAN :
       IF ok
       THEN /\ cr' = IF cr.step = Len(SetupSteps)
                     THEN [cr EXCEPT !.pc = "build"]
                     ELSE [cr EXCEPT !.step = cr.step + 1]
            /\ UNCHANGED <<plugin, created>>
       ELSE CreateFails(SetupSteps[cr.step])
  /\ UNCHANGED call
  /\ UNCHANGED <<httpVars, anaVars, posVars>>

\* create_inner, lines 134-157: the graph build, which records what went
\* wrong in the graph and returns nothing.
CreateBuild ==
  /\ cr.pc = "build"
  /\ \E modules \in ModuleTables, error \in BuildErrors :
       cr' = [cr EXCEPT !.pc = "valid",
                        !.graph = Some([roots |-> cr.roots, modules |-> modules,
                                        error |-> error])]
  /\ UNCHANGED <<plugin, created, call>>
  /\ UNCHANGED <<httpVars, anaVars, posVars>>

\* create_inner, lines 158-165.
CreateValid ==
  /\ cr.pc = "valid"
  /\ LET valid == graph_valid(cr.graph.value)
     IN IF valid.ok
        THEN /\ plugin' = Some([cwd |-> cr.cwd, file_fetcher |-> FileFetcher,
                                resolver |-> Resolver, graph |-> cr.graph.value])
             /\ cr' = CreateIdle
             /\ created' = [created EXCEPT !.result = Some(Ok("plugin"))]
        ELSE CreateFails(valid.error)
  /\ UNCHANGED call
  /\ UNCHANGED <<httpVars, anaVars, posVars>>

\* resolve, lines 168-205.
Resolve ==
  /\ plugin.some
  /\ call.pc = "idle"
  /\ \E specifier \in EntrypointTexts, importer \in Importers,
        resolution_mode \in 0..2, answer \in ResolverAnswers :
       LET out == resolve_inner(plugin.value, specifier, importer,
                                ResolutionMode(resolution_mode), answer)
       IN call' = [pc |-> "done", op |-> "resolve", specifier |-> specifier,
                   importer |-> importer, resolution_mode |-> resolution_mode,
                   result |-> out.result, resolver_calls |-> out.resolver_calls,
                   fetches |-> <<>>]
  /\ UNCHANGED <<plugin, cr, created>>
  /\ UNCHANGED <<httpVars, anaVars, posVars>>

\* load, lines 207-235: up to the return or to the await of the fetch.
Load ==
  /\ plugin.some
  /\ call.pc = "idle"
  /\ \E text \in LoadTexts :
       LET url == UrlParse(text)
           todo == LoadDispatch(graph_get(plugin.value.graph, url.value))
       IN call' =
            IF ~url.ok
            THEN [pc |-> "done", op |-> "load", url |-> text,
                  result |-> Err(url.error), fetches |-> <<>>]
            ELSE IF todo.do = "return"
            THEN [pc |-> "done", op |-> "load", url |-> text,
                  result |-> todo.result, fetches |-> <<>>]
            ELSE [pc |-> "fetching", op |-> "load", url |-> text,
                  fetches |-> <<[fetch |-> "fetch_bypass_permissions",
                                 url |-> url.value]>>]
  /\ UNCHANGED <<plugin, cr, created>>
  /\ UNCHANGED <<httpVars, anaVars, posVars>>

\* The fetch of a load fails and the plugin is thrown away with it.
LoadFetchedDropsPlugin ==
  /\ call.pc = "fetching"
  /\ \E fetched \in FetchAnswers(call.fetches[1].url) :
       /\ call' = [pc |-> "done", op |-> "load", url |-> call.url,
                   result |-> LoadFetched(call.fetches[1].url, fetched),
                   fetches |-> call.fetches, fetched |-> fetched]
       /\ plugin' = IF fetched.ok THEN plugin ELSE NoneOpt
  /\ UNCHANGED <<cr, created>>
  /\ UNCHANGED <<httpVars, anaVars, posVars>>

\* load, lines 235-246: from the fetched file to the return.
LoadFetchReturn ==
  /\ call.pc = "fetching"
  /\ \E fetched \in FetchAnswers(call.fetches[1].url) :
       call' = [pc |-> "done", op |-> "load", url |-> call.url,
                result |-> LoadFetched(call.fetches[1].url, fetched),
                fetches |-> call.fetches, fetched |-> fetched]
  /\ UNCHANGED <<plugin, cr, created>>
  /\ UNCHANGED <<httpVars, anaVars, posVars>>

\* The caller takes the error of create; nothing of the attempt is left.
CreateReturn ==
  /\ created.result.some
  /\ ~created.result.value.ok
  /\ created' = NotCreated
  /\ UNCHANGED <<plugin, cr, call>>
  /\ UNCHANGED <<httpVars, anaVars, posVars>>

\* The caller takes the result of resolve or load.
CallReturn ==
  /\ call.pc = "done"
  /\ call' = CallIdle
  /\ UNCHANGED <<plugin, cr, created>>
  /\ UNCHANGED <<httpVars, anaVars, posVars>>

NextPlugin ==
  \/ Create
  \/ CreateParseRoots
  \/ CreateSetup
  \/ CreateBuild
  \/ CreateValid
  \/ CreateReturn
  \/ Resolve
  \/ Load
  \/ LoadFetchReturn
  \/ CallReturn

\* ------------------------------------------------------------------------
\* Position mapper specification: every text, every index up to one past
\* the end.
\* ------------------------------------------------------------------------
ByteIndexToPosition ==
  /\ ~posResult.some
  /\ posResult' = Some(byte_index_to_position(posDoc, posIndex))
  /\ UNCHANGED <<posDoc, posIndex>>
  /\ UNCHANGED <<httpVars, pluginVars, anaVars>>

NextPos == ByteIndexToPosition

\* ------------------------------------------------------------------------
\* Specifications, one per component; the other components stay idle.
\* ------------------------------------------------------------------------
InitHttp ==
  /\ httpPc = "idle"
  /\ httpClient = None
  /\ httpRequest = None
  /\ httpResult = None
  /\ httpOut = None
  /\ plugin = NoneOpt
  /\ cr = CreateIdle
  /\ created = NotCreated
  /\ call = CallIdle
  /\ anaStmts = <<>>
  /\ anaMedia = "Unknown"
  /\ anaOut = NoneOpt
  /\ posDoc = <<>>
  /\ posIndex = 0
  /\ posResult = NoneOpt

InitPlugin ==
  /\ httpPc = "idle"
  /\ httpClient = None
  /\ httpRequest = None
  /\ httpResult = None
  /\ httpOut = None
  /\ plugin = NoneOpt
  /\ cr = CreateIdle
  /\ created = NotCreated
  /\ call = CallIdle
  /\ anaStmts = <<>>
  /\ anaMedia = "Unknown"
  /\ anaOut = NoneOpt
  /\ posDoc = <<>>
  /\ posIndex = 0
  /\ posResult = NoneOpt

InitAna ==
  /\ httpPc = "idle"
  /\ httpClient = None
  /\ httpRequest = None
  /\ httpResult = None
  /\ httpOut = None
  /\ plugin = NoneOpt
  /\ cr = CreateIdle
  /\ created = NotCreated
  /\ call = CallIdle
  /\ anaStmts \in Documents
  /\ anaMedia \in MediaTypes
  /\ anaOut = NoneOpt
  /\ posDoc = <<>>
  /\ posIndex = 0
  /\ posResult = NoneOpt

InitPos ==
  /\ httpPc = "idle"
  /\ httpClient = None
  /\ httpRequest = None
  /\ httpResult = None
  /\ httpOut = None
  /\ plugin = NoneOpt
  /\ cr = CreateIdle
  /\ created = NotCreated
  /\ call = CallIdle
  /\ anaStmts = <<>>
  /\ anaMedia = "Unknown"
  /\ anaOut = NoneOpt
  /\ posDoc \in SeqsUpTo(PosBytes, MaxLen)
  /\ posIndex \in 0..(Len(posDoc) + 1)
  /\ posResult = NoneOpt

SpecPlugin == InitPlugin /\ [][NextPlugin]_vars
SpecHttp == InitHttp /\ [][NextHttp]_vars
SpecAna == InitAna /\ [][NextAna]_vars
SpecPos == InitPos /\ [][NextPos]_vars
\* ------------------------------------------------------------------------
\* Properties of the dependency extraction
\* ------------------------------------------------------------------------
\* The analyzer has returned a ModuleInfo for a document free of syntax
\* errors.
AnaParsed == anaOut.some /\ anaOut.value.ok /\ ~HasSyntaxError(anaStmts)
AnaText == SourceText(anaStmts)
AnaTree == SpannedStmts(anaStmts, 1, 0, 1)
AnaDeps == anaOut.value.dependencies

IsTemplateDep(d) == d.type = "Dynamic" /\ d.argument.tag = "Template"

\* C7: the parts of a Template argument alternate literal segment, Expr,
\* literal segment, ..., literal segment (2k+1 parts for k interpolations);
\* import(`./c-${id}.js`) yields the parts "./c-", Expr, ".js".
C7_TemplatePartsAlternate ==
  AnaParsed =>
    /\ \A i \in 1..Len(AnaDeps) :
         IsTemplateDep(AnaDeps[i]) =>
           LET parts == AnaDeps[i].argument.parts
           IN /\ Len(parts) % 2 = 1
              /\ \A j \in 1..Len(parts) :
                   parts[j].tag = (IF j % 2 = 1 THEN "String" ELSE "Expr")
    /\ (anaStmts = <<VariableDeclaration(ImportExpression(Tpl_c))>>) =>
         AnaDeps[1].argument.parts =
           <<[tag |-> "String", value |-> <<".", "/", "c", "-">>], [tag |-> "Expr"],
             [tag |-> "String", value |-> <<".", "j", "s">>]>>

\* Every node of the tree that is a static import, an export-from with a
\* source, an export-all or a dynamic import call, in source order.
RECURSIVE DepNodesOfStmt(_), DepNodesOfExpr(_), DepNodesOfStmts(_, _)
RECURSIVE DepNodesOfExprs(_, _)
DepNodesOfStmts(stmts, i) ==
  IF i > Len(stmts) THEN <<>>
  ELSE DepNodesOfStmt(stmts[i]) \o DepNodesOfStmts(stmts, i + 1)

DepNodesOfExprs(exprs, i) ==
  IF i > Len(exprs) THEN <<>>
  ELSE DepNodesOfExpr(exprs[i]) \o DepNodesOfExprs(exprs, i + 1)

DepNodesOfStmt(s) ==
  CASE s.type \in {"ImportDeclaration", "ExportAllDeclaration"} -> <<s>>
    [] s.type = "ExportNamedDeclaration" ->
         IF s.source.some THEN <<s>> ELSE DepNodesOfStmt(s.declaration.value)
    [] s.type = "ExportDefaultDeclaration" -> DepNodesOfExpr(s.expr)
    [] s.type = "VariableDeclaration" -> DepNodesOfExpr(s.init)
    [] s.type = "ExpressionStatement" -> DepNodesOfExpr(s.expr)
    [] s.type = "FunctionDeclaration" -> DepNodesOfStmts(s.body, 1)
    [] OTHER -> <<>>

DepNodesOfExpr(e) ==
  CASE e.type = "ImportExpression" -> <<e>> \o DepNodesOfExpr(e.source)
    [] e.type = "TemplateLiteral" -> DepNodesOfExprs(e.expressions, 1)
    [] OTHER -> <<>>

\* Whether descriptor d describes node n.
Describes(d, n) ==
  CASE n.type = "ImportDeclaration" -> d.type = "Static" /\ d.kind = "Import"
    [] n.type \in {"ExportNamedDeclaration", "ExportAllDeclaration"} ->
         d.type = "Static" /\ d.kind = "Export"
    [] OTHER -> d.type = "Dynamic"

\* C10: the descriptor sequence holds exactly one descriptor for each static
\* import, export-from with a source, export-all and dynamic import call
\* anywhere in the tree, in source order.
C10_CompleteAndOrdered ==
  AnaParsed =>
    LET nodes == DepNodesOfStmts(AnaTree, 1)
    IN /\ Len(AnaDeps) = Len(nodes)
       /\ \A i \in 1..Len(AnaDeps) :
            i <= Len(nodes) => Describes(AnaDeps[i], nodes[i])

\* From a Position back to a byte offset: the start of its line plus its
\* character.
NewlinePlaces(text) == {i \in 1..Len(text) : text[i] = NL}
LineStartOffset(text, line) ==
  IF line = 0 THEN 0
  ELSE CHOOSE i \in NewlinePlaces(text) :
         Cardinality({j \in NewlinePlaces(text) : j <= i}) = line
PositionToOffset(text, pos) == LineStartOffset(text, pos.line) + pos.character
SliceOfRange(text, range) ==
  SubSeq(text, PositionToOffset(text, range.start) + 1,
         PositionToOffset(text, range.end))

\* The descriptors that carry a specifier text, with text and range.
HasSpecifier(d) ==
  d.type = "Static" \/ (d.type = "Dynamic" /\ d.argument.tag = "String")
SpecifierOf(d) == IF d.type = "Static" THEN d.specifier ELSE d.argument.value
RangeOf(d) == IF d.type = "Static" THEN d.specifier_range ELSE d.argument_range

\* C9 as stated: slicing the document over the reported range of a static
\* descriptor or of a String-argument dynamic descriptor yields exactly the
\* specifier text, the quote characters excluded.
C9_RangeRoundTrip ==
  AnaParsed =>
    \A i \in 1..Len(AnaDeps) :
      HasSpecifier(AnaDeps[i]) =>
        SliceOfRange(AnaText, RangeOf(AnaDeps[i])) = SpecifierOf(AnaDeps[i])

\* C9 amended: the slice is the string literal as written, its two quote
\* characters included; the bytes between the quotes are the specifier text
\* whenever the literal is written without an escape sequence.
C9_RangeCoversQuotedLiteral ==
  AnaParsed =>
    \A i \in 1..Len(AnaDeps) :
      HasSpecifier(AnaDeps[i]) =>
        LET slice == SliceOfRange(AnaText, RangeOf(AnaDeps[i]))
            inner == SubSeq(slice, 2, Len(slice) - 1)
        IN /\ Len(slice) >= 2
           /\ slice[1] = Quote
           /\ slice[Len(slice)] = Quote
           /\ \A j \in 1..Len(inner) : inner[j] # Quote
           /\ (\A j \in 1..Len(inner) : inner[j] # "\\") =>
                inner = SpecifierOf(AnaDeps[i])

\* A static import on the second line and a String-argument dynamic import
\* on the first, both sliced back out of the text.
C9_Witness ==
  /\ AnaParsed
  /\ anaStmts = <<ExportDefaultDeclaration(ImportExpression(Lit_b)),
                  ImportDeclaration(Lit_a)>>
  /\ Len(AnaDeps) = 2
  /\ AnaDeps[2].specifier_range.start = [line |-> 1, character |-> 7]
  /\ SliceOfRange(AnaText, AnaDeps[2].specifier_range) = <<"\"", ".", "/", "a", "\"">>
  /\ SliceOfRange(AnaText, AnaDeps[1].argument_range) = <<"\"", ".", "\\", "x", "2", "f", "b", "\"">>

\* The dynamic import calls of the tree, in source order.
ImportCalls ==
  LET nodes == DepNodesOfStmts(AnaTree, 1)
  IN SelectSeq(nodes, LAMBDA n : n.type = "ImportExpression")

\* The shape of DynamicArgument an argument expression gives.
ArgumentTagOf(e) ==
  CASE e.type = "StringLiteral" -> "String"
    [] e.type = "TemplateLiteral" -> "Template"
    [] OTHER -> "Expr"

\* C11: the argument_range of every dynamic descriptor is the range of the
\* span of the argument expression of an import call of the tree whose
\* argument has the descriptor's shape (string literal, template literal or
\* other expression), never the span of the import(...) call around it.
C11_ArgumentRangeIsArgumentSpan ==
  AnaParsed =>
    \A i \in 1..Len(AnaDeps) :
      AnaDeps[i].type = "Dynamic" =>
        \E k \in 1..Len(ImportCalls) :
          LET node == ImportCalls[k]
          IN /\ AnaDeps[i].argument.tag = ArgumentTagOf(node.source)
             /\ AnaDeps[i].argument_range
                  = [start |-> byte_index_to_position(AnaText, node.source.span.start),
                     end |-> byte_index_to_position(AnaText, node.source.span.end)]
             /\ AnaDeps[i].argument_range.start
                  # byte_index_to_position(AnaText, node.span.start)

AnaDone == anaOut.some
UnsupportedMedia ==
  anaMedia \in {"Json", "Css", "Html", "Wasm", "Sql", "SourceMap", "Unknown"}

\* C12: for the media types JSON, CSS, HTML, WebAssembly, SQL, source-map and
\* unknown analyze fails with the unsupported-media-type error; for every
\* other media type it fails with a different, parse error when the parser
\* reports syntax errors in the text, and succeeds when it reports none.
C12_SyntaxErrorsAreRejected ==
  AnaDone =>
    /\ UnsupportedMedia =>
         /\ ~anaOut.value.ok
         /\ anaOut.value.error = "Unsupported media type for analysis"
    /\ (~UnsupportedMedia /\ HasSyntaxError(anaStmts)) =>
         /\ ~anaOut.value.ok
         /\ anaOut.value.error # "Unsupported media type for analysis"
    /\ (~UnsupportedMedia /\ ~HasSyntaxError(anaStmts)) => anaOut.value.ok

\* ------------------------------------------------------------------------
\* Properties of the position mapper
\* ------------------------------------------------------------------------
PosDone == posResult.some
PosInText == PosDone /\ posIndex <= Len(posDoc)

\* One-based places of the newline bytes of posDoc[0..posIndex].
NewlinesBefore == {i \in 1..Len(posDoc) : i <= posIndex /\ posDoc[i] = NL}
LastNewline == CHOOSE i \in NewlinesBefore : \A j \in NewlinesBefore : j <= i

\* C8 as stated: for 0 <= o <= length(d) the line is the number of newline
\* bytes in d[0..o] and the character is o minus the (zero-based) index of
\* the last newline byte before o, or o minus 0 when there is none.
C8_PositionOfOffset ==
  PosInText =>
    /\ posResult.value.line = Cardinality(NewlinesBefore)
    /\ posResult.value.character =
         (IF NewlinesBefore = {} THEN posIndex - 0
          ELSE posIndex - (LastNewline - 1))

\* C8 amended: the character is o minus the index of the byte that follows
\* the last newline byte before o (the start of o's line), or o when there is
\* no newline before o; counting is over bytes.
C8_PositionOfOffsetAmended ==
  PosInText =>
    /\ posResult.value.line = Cardinality(NewlinesBefore)
    /\ posResult.value.character =
         (IF NewlinesBefore = {} THEN posIndex ELSE posIndex - LastNewline)

\* An offset behind a newline and a two-byte character.
C8_Witness ==
  /\ PosInText
  /\ posDoc = <<"a", NL, "c3", "a9">>
  /\ posIndex = 4
  /\ posResult.value = [line |-> 1, character |-> 2]

\* The position of the end of the text: as many lines down as the text has
\* newline bytes, as many bytes in as follow the last of them.
AllNewlines == {i \in 1..Len(posDoc) : posDoc[i] = NL}
EndOfText ==
  [line |-> Cardinality(AllNewlines),
   character |-> IF AllNewlines = {} THEN Len(posDoc)
                 ELSE Len(posDoc) - (CHOOSE i \in AllNewlines :
                                       \A j \in AllNewlines : j <= i)]

\* C13: offset 0 gives line 0, character 0 in every document, and every
\* offset at or past the end of the text gives, without a panic or a read out
\* of bounds, the position of the end of the last line, the one offset
\* length(d) gives.
C13_OffsetsAtAndPastTheEnd ==
  PosDone =>
    /\ posIndex = 0 => posResult.value = [line |-> 0, character |-> 0]
    /\ posIndex >= Len(posDoc) => posResult.value = EndOfText

\* ------------------------------------------------------------------------
\* Properties of the plugin
\* ------------------------------------------------------------------------
Built == plugin.some
ResolveDone == call.pc = "done" /\ call.op = "resolve"
LoadDone == call.pc = "done" /\ call.op = "load"
IsText(msg) == msg \in STRING

\* C3: once a plugin is Built, no step of a resolve or load call, successful
\* or failed, changes its working directory, resolver, file fetcher or graph,
\* nor starts a construction; a failed call ends with a textual error and the
\* plugin still Built.
C3_QueriesLeavePluginUnchanged ==
  [][Built =>
       /\ plugin' = plugin
       /\ cr' = cr
       /\ created' = created
       /\ (call'.pc = "done" /\ ~call'.result.ok) => IsText(call'.result.error)]_vars

C3_Witness ==
  /\ Built
  /\ LoadDone
  /\ Len(call.fetches) = 1
  /\ ~call.result.ok

\* Whether every entrypoint of the last create parses against its cwd.
EveryEntrypointParses ==
  \A i \in 1..Len(created.entrypoints) :
    LET text == created.entrypoints[i]
    IN IF StartsWith(text, Str_jsr) \/ StartsWith(text, Str_https)
          \/ StartsWith(text, Str_file)
       THEN UrlParse(text).ok
       ELSE url_from_file_path(PathJoin(created.cwd, text)).ok

CreateReturned == created.result.some
CreateReturnedError ==
  /\ CreateReturned
  /\ ~created.result.value.ok
  /\ IsText(created.result.value.error)

C5_Load ==
  (call.pc # "idle" /\ call.op = "load" /\ UrlParse(call.url).ok) =>
    LET url == UrlParse(call.url).value
        modules == plugin.value.graph.modules
        kind == IF url \in DOMAIN modules THEN modules[url].kind ELSE "absent"
    IN /\ Built
       /\ kind \in {"Js", "Json"} =>
            /\ call.pc = "done"
            /\ call.fetches = <<>>
            /\ call.result.ok
            /\ call.result.value.specifier = modules[url].specifier
            /\ call.result.value.code = modules[url].source
            /\ kind = "Json" => call.result.value.media_type = 12
            /\ kind = "Js" =>
                 call.result.value.media_type
                   = media_type_to_u8(modules[url].media_type)
       /\ kind = "Wasm" =>
            /\ call.pc = "done"
            /\ call.fetches = <<>>
            /\ call.result = Err("Wasm is not supported.")
       /\ kind \in {"absent", "Npm", "Node", "External"} =>
            /\ call.fetches = <<[fetch |-> "fetch_bypass_permissions", url |-> url]>>
            /\ call.pc = "done" =>
                 IF call.fetched.ok
                 THEN /\ call.result.ok
                      /\ call.result.value.media_type
                           = media_type_to_u8(from_specifier_and_headers(
                               url, call.fetched.value.maybe_headers))
                 ELSE call.result = Err(call.fetched.error)

C5_Witness ==
  /\ LoadDone
  /\ call.url = Url_npm
  /\ Url_npm \in DOMAIN plugin.value.graph.modules
  /\ Len(call.fetches) = 1
  /\ call.result.ok
  /\ call.result.value.media_type = 4

\* A working directory that is not absolute, for parse_entrypoint alone.
Cwd_rel == <<"r", "e", "l">>

\* The file: specifier of a path, written out for the sample texts.
ExpectedFileUrl(text, cwd) ==
  CASE text = Text_rel /\ cwd = Cwd_proj -> Ok(<<"f", "i", "l", "e", ":", "/", "/", "/", "p", "r", "o", "j", "/", "a", ".", "t", "s">>)
    [] text = Text_rel /\ cwd = <<"/", "w", "/">> -> Ok(<<"f", "i", "l", "e", ":", "/", "/", "/", "w", "/", "a", ".", "t", "s">>)
    [] text = Text_bare /\ cwd = Cwd_proj -> Ok(<<"f", "i", "l", "e", ":", "/", "/", "/", "p", "r", "o", "j", "/", "m", "a", "i", "n", ".", "t", "s">>)
    [] text = Text_bare /\ cwd = <<"/", "w", "/">> -> Ok(<<"f", "i", "l", "e", ":", "/", "/", "/", "w", "/", "m", "a", "i", "n", ".", "t", "s">>)
    [] text = Text_http /\ cwd = Cwd_proj -> Ok(<<"f", "i", "l", "e", ":", "/", "/", "/", "p", "r", "o", "j", "/", "h", "t", "t", "p", ":", "/", "e", ".", "c", "o", "m", "/", "a", ".", "t", "s">>)
    [] text = Text_http /\ cwd = <<"/", "w", "/">> -> Ok(<<"f", "i", "l", "e", ":", "/", "/", "/", "w", "/", "h", "t", "t", "p", ":", "/", "e", ".", "c", "o", "m", "/", "a", ".", "t", "s">>)
    [] text = Text_abs -> Ok(<<"f", "i", "l", "e", ":", "/", "/", "/", "a", "b", "s", "/", "b", ".", "t", "s">>)
    [] cwd = Cwd_rel -> Err("invalid path")

\* What the claim says of parse_entrypoint(text, cwd).
ExpectedEntrypoint(text, cwd) ==
  IF \E prefix \in {Str_jsr, Str_https, Str_file} : StartsWith(text, prefix)
  THEN (CASE text = Text_nohost -> Err("empty host")
          [] OTHER -> Ok(text))
  ELSE ExpectedFileUrl(text, cwd)

\* C6: parse_entrypoint parses a text starting with jsr:, https: or file:
\* verbatim and turns every other text into the file: specifier of the text
\* joined against cwd, or fails with an invalid-path error; resolve with no
\* importer returns exactly that for the plugin's cwd, whatever the
\* resolution mode, and does not call the external resolver.
C6_ParseEntrypoint ==
  /\ (ResolveDone /\ ~call.importer.some) =>
       /\ \A cwd \in Cwds \cup {Cwd_rel} :
            parse_entrypoint(call.specifier, cwd)
              = ExpectedEntrypoint(call.specifier, cwd)
       /\ call.result = ExpectedEntrypoint(call.specifier, plugin.value.cwd)
       /\ call.resolver_calls = <<>>
  /\ (ResolveDone /\ call.importer.some /\ call.result \in ResolverAnswers) =>
       Len(call.resolver_calls) = 1

C6_Witness ==
  /\ ResolveDone
  /\ ~call.importer.some
  /\ call.specifier = Text_http
  /\ call.resolution_mode = 0
  /\ plugin.value.cwd = Cwd_proj
  /\ call.result = Ok(<<"f", "i", "l", "e", ":", "/", "/", "/", "p", "r", "o", "j", "/", "h", "t", "t", "p", ":", "/", "e", ".", "c", "o", "m", "/", "a", ".", "t", "s">>)

====
